---- MODULE Spec2Model ----
(***************************************************************************)
(* Storage and consistency model of the notes application (src/app.py).    *)
(* The state is the notes directory (one file per note id plus the index   *)
(* file), the in-memory index self.notes, the screen the user is on and    *)
(* the widgets' captured values (cards of the list, is_new of the editor). *)
(* Every Tk callback runs to completion before the next one starts, so     *)
(* each handler is one action.                                             *)
(***************************************************************************)
EXTENDS Integers, Sequences, FiniteSets, TLC

\* ------------------------------------------------------------------ bounds
\* Last clock tick the model lets the wall clock reach.
MaxTime == 2
\* Clock ticks per second: ids have second precision, timestamps are finer.
TicksPerSec == 2
\* Longest in-memory index the model lets a new-note save build.
MaxIndexLen == 2
\* Longest index passed to a filter call on the storage.
MaxFilterLen == 3
\* Length of the text in the editor when the editing surface is exercised.
MaxContentLen == 2

\* ------------------------------------------------------------- value sets
Times == 0..MaxTime
\* datetime.now().strftime("%Y%m%d_%H%M%S"): the timestamp cut to the second.
IdOf(t) == t \div TicksPerSec
IdSet == {IdOf(t) : t \in Times}
\* self.current_note_id = None
NoId == 0 - 1
SecondsPerDay == 86400
TicksPerDay == SecondsPerDay * TicksPerSec

\* Strings are sequences of characters; " " is the whitespace character.
UntitledNote == <<"U", "n", "t", "i", "t", "l", "e", "d", " ", "N", "o", "t", "e">>
TitleInputs == {<<"t", " ">>}
ContentInputs == {<<>>, <<" ">>, <<"a">>}
\* The three list buttons of the main menu: 7 days, 30 days, all (None).
NoDays == 0 - 1
DaysFilters == {7, 30, NoDays}
\* Outcome of "with open(path, 'w') as f: json.dump(data, f)": written; open
\* raised and the file is as before; or the file was truncated by open and
\* the dump raised part-way.
WriteResults == {"ok", "fail", "partial"}

Absent == [kind |-> "absent"]
Corrupt == [kind |-> "corrupt"]

\* ---------------------------------------------------------------- strings
RECURSIVE LStrip(_)
LStrip(s) == IF s # <<>> /\ Head(s) = " " THEN LStrip(Tail(s)) ELSE s

RECURSIVE RStrip(_)
RStrip(s) == IF s # <<>> /\ s[Len(s)] = " " THEN RStrip(SubSeq(s, 1, Len(s) - 1)) ELSE s

\* str.strip()
Strip(s) == RStrip(LStrip(s))

\* ------------------------------------------------------------- timestamps
\* A timestamp is held as its number of ticks; its text is what isoformat()
\* prints: the fixed-width fields down to the second, then the fraction,
\* which isoformat() leaves out when it is zero.
DigitChars == <<"0", "1", "2", "3", "4", "5", "6", "7", "8", "9">>
\* Width of the fields down to the second ("%Y-%m-%dT%H:%M:%S"), in digits.
SecWidth == 7

RECURSIVE Digits(_, _)
Digits(n, width) == IF width = 0 THEN <<>> ELSE Digits(n \div 10, width - 1) \o <<DigitChars[(n % 10) + 1]>>

DigitValue(c) == CHOOSE d \in 0..9 : DigitChars[d + 1] = c

RECURSIVE Number(_)
Number(s) == IF s = <<>> THEN 0 ELSE 10 * Number(SubSeq(s, 1, Len(s) - 1)) + DigitValue(s[Len(s)])

\* str() of a number: no padding.
RECURSIVE DigitsNoPad(_)
DigitsNoPad(n) == IF n < 10 THEN <<DigitChars[n + 1]>> ELSE DigitsNoPad(n \div 10) \o <<DigitChars[(n % 10) + 1]>>

\* datetime.isoformat()
isoformat(t) == Digits(t \div TicksPerSec, SecWidth) \o (IF t % TicksPerSec = 0 THEN <<>> ELSE <<".", DigitChars[(t % TicksPerSec) + 1]>>)

\* datetime.fromisoformat()
fromisoformat(s) == Number(SubSeq(s, 1, SecWidth)) * TicksPerSec + (IF Len(s) > SecWidth THEN DigitValue(s[SecWidth + 2]) ELSE 0)

\* Code point order of the characters a timestamp's text is made of.
CharCode(c) == IF c = "." THEN 46 ELSE 48 + DigitValue(c)

\* Python's str "<": by code point, a proper prefix first.
RECURSIVE StrLess(_, _)
StrLess(a, b) == IF b = <<>> THEN FALSE ELSE IF a = <<>> THEN TRUE ELSE IF Head(a) = Head(b) THEN StrLess(Tail(a), Tail(b)) ELSE CharCode(Head(a)) < CharCode(Head(b))

\* ------------------------------------------------------------------- JSON
\* The text json.dump writes is held as the sequence of the object's members
\* <<key, value text>> in the order of the dict; a string's text is quoted
\* and escaped, a list's text is the sequence of its elements' texts.
RECURSIVE JsonEscape(_)
JsonEscape(s) == IF s = <<>> THEN <<>> ELSE (IF Head(s) \in {"\"", "\\"} THEN <<"\\", Head(s)>> ELSE IF Head(s) = "\n" THEN <<"\\", "n">> ELSE <<Head(s)>>) \o JsonEscape(Tail(s))

RECURSIVE JsonUnescape(_)
JsonUnescape(s) == IF s = <<>> THEN <<>> ELSE IF Head(s) = "\\" /\ Len(s) >= 2 THEN <<IF s[2] = "n" THEN "\n" ELSE s[2]>> \o JsonUnescape(SubSeq(s, 3, Len(s))) ELSE <<Head(s)>> \o JsonUnescape(Tail(s))

\* Variant: the string is written between quotes without escaping.
JsonString_NoEscape(s) == <<"\"">> \o s \o <<"\"">>

JsonString(s) == <<"\"">> \o JsonEscape(s) \o <<"\"">>

\* The string a quoted text denotes: it ends at the first unescaped quote.
RECURSIVE ClosingQuote(_, _)
ClosingQuote(text, i) == IF i > Len(text) THEN 0 ELSE IF text[i] = "\\" THEN ClosingQuote(text, i + 2) ELSE IF text[i] = "\"" THEN i ELSE ClosingQuote(text, i + 1)

\* A text that is not one complete quoted string does not parse.
IsJsonString(text) == Len(text) >= 2 /\ text[1] = "\"" /\ ClosingQuote(text, 2) = Len(text)

ParseJsonString(text) == JsonUnescape(SubSeq(text, 2, Len(text) - 1))

\* One FormatRange {"start": ..., "end": ..., "tag": ...}; a tag name is held
\* as one symbol.
JsonRange(fmt) == <<<<"start", JsonString(fmt.start)>>, <<"end", JsonString(fmt.end)>>, <<"tag", JsonString(<<fmt.tag>>)>>>>

ParseJsonRange(members) == [start |-> ParseJsonString(members[1][2]), end |-> ParseJsonString(members[2][2]), tag |-> ParseJsonString(members[3][2])[1]]

\* A list: the texts, respectively the values, of its elements in order.
RECURSIVE JsonArray(_)
JsonArray(formatting) == IF formatting = <<>> THEN <<>> ELSE <<JsonRange(Head(formatting))>> \o JsonArray(Tail(formatting))

RECURSIVE ParseJsonArray(_)
ParseJsonArray(items) == IF items = <<>> THEN <<>> ELSE <<ParseJsonRange(Head(items))>> \o ParseJsonArray(Tail(items))

\* json.dump(note_data, f): the six members in the order of the dict literal.
json_dump(note_data) == <<<<"id", JsonString(Digits(note_data.id, SecWidth))>>, <<"title", JsonString(note_data.title)>>, <<"content", JsonString(note_data.content)>>, <<"formatting", JsonArray(note_data.formatting)>>, <<"created", JsonString(isoformat(note_data.created))>>, <<"modified", JsonString(isoformat(note_data.modified))>>>>

StringMembers == {"id", "title", "content", "created", "modified"}

\* The text parses when each of its strings is one complete quoted string.
IsJson(text) == \A k \in 1..Len(text) : (text[k][1] \in StringMembers => IsJsonString(text[k][2])) /\ (text[k][1] = "formatting" => \A j \in 1..Len(text[k][2]) : \A m \in 1..3 : IsJsonString(text[k][2][j][m][2]))

\* The value of one member, in the representation the model holds it in.
MemberValue(key, value) == IF key = "id" THEN Number(ParseJsonString(value)) ELSE IF key \in {"created", "modified"} THEN fromisoformat(ParseJsonString(value)) ELSE IF key = "formatting" THEN ParseJsonArray(value) ELSE ParseJsonString(value)

\* json.load(f): the dict of the members.
json_load(text) == [key \in {text[k][1] : k \in 1..Len(text)} |-> MemberValue(key, text[CHOOSE k \in 1..Len(text) : text[k][1] = key][2])]

\* A file of the notes directory as NoteStorage sees it: absent, or a text.
\* A text is the members json.dump wrote, or something no JSON parser takes
\* (Corrupt: empty, truncated or foreign).
TextFile(text) == [kind |-> "text", members |-> text]

ParsesAsJson(file) == file.kind = "text" /\ IsJson(file.members)

\* ---------------------------------------------------------------- helpers
RECURSIVE SelectIds(_)
SelectIds(entries) == IF entries = <<>> THEN <<>> ELSE <<Head(entries).id>> \o SelectIds(Tail(entries))

\* [note for note in self.notes if note["id"] != note_id]
RemoveId(entries, note_id) == SelectSeq(entries, LAMBDA e : e.id # note_id)

\* Position of the first entry with this id, 0 when there is none.
FirstIndexOf(entries, note_id) == IF \E i \in 1..Len(entries) : entries[i].id = note_id THEN CHOOSE i \in 1..Len(entries) : entries[i].id = note_id /\ \A j \in 1..(i - 1) : entries[j].id # note_id ELSE 0

\* sorted(..., key=lambda x: x["created"], reverse=True): the keys are the
\* timestamps' texts, compared as strings; stable, equal keys keep their order.
RECURSIVE InsertDesc(_, _)
InsertDesc(sorted, e) == IF sorted = <<>> THEN <<e>> ELSE IF ~StrLess(isoformat(Head(sorted).created), isoformat(e.created)) THEN <<Head(sorted)>> \o InsertDesc(Tail(sorted), e) ELSE <<e>> \o sorted

RECURSIVE SortedDesc(_)
SortedDesc(entries) == IF entries = <<>> THEN <<>> ELSE InsertDesc(SortedDesc(SubSeq(entries, 1, Len(entries) - 1)), entries[Len(entries)])

\* -------------------------------------------------------- editing surface
\* The Text widget: chars are its characters, the last one the newline Tk
\* keeps at the end; tags[p] are the tags on character p. A position is
\* addressed by its offset 0..Len(chars) from the start, or by the index
\* "line.column" Tk prints and parses.
TagOrder == <<"bold", "italic", "underline">>
Tags == {TagOrder[k] : k \in 1..Len(TagOrder)}

Surface(content) == [chars |-> content \o <<"\n">>, tags |-> [p \in 1..(Len(content) + 1) |-> {}]]

NewlinesBefore(chars, off) == Cardinality({k \in 1..off : chars[k] = "\n"})

\* Offset of the start of the line that offset off is on.
LineStartBefore(chars, off) == IF \E k \in 1..off : chars[k] = "\n" THEN CHOOSE k \in 1..off : chars[k] = "\n" /\ \A j \in (k + 1)..off : chars[j] # "\n" ELSE 0

\* The index "line.column" of an offset: lines count from 1, columns from 0.
IndexOf(chars, off) == <<1 + NewlinesBefore(chars, off), off - LineStartBefore(chars, off)>>

\* Position of the newline that ends line n.
LineEnd(chars, n) == CHOOSE k \in 1..Len(chars) : chars[k] = "\n" /\ NewlinesBefore(chars, k) = n

\* The offset Tk resolves an index to: a line past the last one is the end
\* of the text, a column past the end of its line is the line's newline.
OffsetOf(chars, index) ==
  LET line == index[1]
      start == IF line = 1 THEN 0 ELSE LineEnd(chars, line - 1)
  IN IF line > NewlinesBefore(chars, Len(chars)) THEN Len(chars)
     ELSE IF start + index[2] > LineEnd(chars, line) - 1 THEN LineEnd(chars, line) - 1 ELSE start + index[2]

\* str(index): "line.column"
IndexText(index) == DigitsNoPad(index[1]) \o <<".">> \o DigitsNoPad(index[2])

DotOf(text) == CHOOSE k \in 1..Len(text) : text[k] = "."

\* Tk reading "line.column"
ParseIndex(text) == <<Number(SubSeq(text, 1, DotOf(text) - 1)), Number(SubSeq(text, DotOf(text) + 1, Len(text)))>>

\* text.tag_add(tag, index1, index2): the characters from index1 up to, not
\* including, index2.
tag_add(surface, tag, index1, index2) == [surface EXCEPT !.tags = [p \in DOMAIN surface.tags |-> IF OffsetOf(surface.chars, index1) < p /\ p <= OffsetOf(surface.chars, index2) THEN surface.tags[p] \cup {tag} ELSE surface.tags[p]]]

\* text.tag_remove(tag, index1, index2)
tag_remove(surface, tag, index1, index2) == [surface EXCEPT !.tags = [p \in DOMAIN surface.tags |-> IF OffsetOf(surface.chars, index1) < p /\ p <= OffsetOf(surface.chars, index2) THEN surface.tags[p] \ {tag} ELSE surface.tags[p]]]

\* text.tag_names(index): the tags on the character at index.
tag_names(surface, index) == IF OffsetOf(surface.chars, index) < Len(surface.chars) THEN surface.tags[OffsetOf(surface.chars, index) + 1] ELSE surface.tags[Len(surface.chars)]

\* First position from p on that does not carry the tag.
RECURSIVE RunEnd(_, _, _)
RunEnd(surface, tag, p) == IF p > Len(surface.chars) THEN p ELSE IF tag \in surface.tags[p] THEN RunEnd(surface, tag, p + 1) ELSE p

\* text.tag_ranges(tag): start and end index of every maximal run of the tag,
\* in text order, flattened (start1, end1, start2, end2, ...).
RECURSIVE RangesFrom(_, _, _)
RangesFrom(surface, tag, p) == IF p > Len(surface.chars) THEN <<>> ELSE IF tag \in surface.tags[p] THEN <<IndexOf(surface.chars, p - 1), IndexOf(surface.chars, RunEnd(surface, tag, p) - 1)>> \o RangesFrom(surface, tag, RunEnd(surface, tag, p)) ELSE RangesFrom(surface, tag, p + 1)

\* Variant: only the first run of the tag is returned.
tag_ranges_FirstRunOnly(surface, tag) == IF RangesFrom(surface, tag, 1) = <<>> THEN <<>> ELSE SubSeq(RangesFrom(surface, tag, 1), 1, 2)

tag_ranges(surface, tag) == RangesFrom(surface, tag, 1)

\* The selection: no selection, or the offsets sel.first < sel.last.
NoSelection == <<>>

\* Variant: the tag is removed only when every character of the selection
\* carries it.
apply_format_AllDecide(surface, format_type, sel) ==
  LET start == IndexText(IndexOf(surface.chars, sel[1]))
      end == IndexText(IndexOf(surface.chars, sel[2]))
  IN IF sel = NoSelection THEN [surface |-> surface, log |-> <<<<"showinfo", "Please select text to format">>>>]
     ELSE IF \A p \in (sel[1] + 1)..sel[2] : format_type \in surface.tags[p] THEN [surface |-> tag_remove(surface, format_type, ParseIndex(start), ParseIndex(end)), log |-> <<>>]
     ELSE [surface |-> tag_add(surface, format_type, ParseIndex(start), ParseIndex(end)), log |-> <<>>]

\* Variant: without a selection the whole text is formatted.
apply_format_WholeText(surface, format_type, sel) ==
  LET start == IndexText(IndexOf(surface.chars, IF sel = NoSelection THEN 0 ELSE sel[1]))
      end == IndexText(IndexOf(surface.chars, IF sel = NoSelection THEN Len(surface.chars) ELSE sel[2]))
  IN IF format_type \in tag_names(surface, ParseIndex(start)) THEN [surface |-> tag_remove(surface, format_type, ParseIndex(start), ParseIndex(end)), log |-> <<>>]
     ELSE [surface |-> tag_add(surface, format_type, ParseIndex(start), ParseIndex(end)), log |-> <<>>]

\* NotesApp.apply_format / NoteEditorView.apply_format_to_selection: index()
\* of sel.first raises TclError when nothing is selected.
apply_format(surface, format_type, sel) ==
  LET start == IndexText(IndexOf(surface.chars, sel[1]))
      end == IndexText(IndexOf(surface.chars, sel[2]))
  IN IF sel = NoSelection THEN [surface |-> surface, log |-> <<<<"showinfo", "Please select text to format">>>>]
     ELSE IF format_type \in tag_names(surface, ParseIndex(start)) THEN [surface |-> tag_remove(surface, format_type, ParseIndex(start), ParseIndex(end)), log |-> <<>>]
     ELSE [surface |-> tag_add(surface, format_type, ParseIndex(start), ParseIndex(end)), log |-> <<>>]

\* for i in range(0, len(ranges), 2): one range per pair of indices.
RECURSIVE RangesOfTag(_, _)
RangesOfTag(ranges, tag) == IF ranges = <<>> THEN <<>> ELSE <<[start |-> IndexText(ranges[1]), end |-> IndexText(ranges[2]), tag |-> tag]>> \o RangesOfTag(SubSeq(ranges, 3, Len(ranges)), tag)

\* for tag in ["bold", "italic", "underline"]
RECURSIVE FormattingFrom(_, _)
FormattingFrom(surface, k) == IF k > Len(TagOrder) THEN <<>> ELSE RangesOfTag(tag_ranges(surface, TagOrder[k]), TagOrder[k]) \o FormattingFrom(surface, k + 1)

\* NotesApp.get_current_formatting / NoteEditorView.get_formatting
get_current_formatting(surface) == FormattingFrom(surface, 1)

\* NotesApp.apply_saved_formatting / NoteEditorView._apply_saved_formatting
RECURSIVE apply_saved_formatting(_, _)
apply_saved_formatting(surface, formatting_list) == IF formatting_list = <<>> THEN surface ELSE apply_saved_formatting(tag_add(surface, Head(formatting_list).tag, ParseIndex(Head(formatting_list).start), ParseIndex(Head(formatting_list).end)), Tail(formatting_list))

\* ------------------------------------------------------------- file store
\* with open(path, "w") as f: json.dump(data, f)
WriteFile(old, new, w) == IF w = "ok" THEN new ELSE IF w = "partial" THEN Corrupt ELSE old

IndexFile(entries) == [kind |-> "index", entries |-> entries]

\* Variant: the index file is opened without the exists() test, which raises
\* when there is none.
load_notes_NoExistsCheck(disk) == IF disk.kind = "index" THEN [notes |-> disk.entries, log |-> <<>>] ELSE [notes |-> <<>>, log |-> <<<<"showerror", "Failed to load notes">>>>]

\* NotesApp.load_notes: the entries of the index file; [] when the file is
\* absent, and [] after an error dialog when it cannot be parsed.
load_notes(disk) == IF disk.kind = "index" THEN [notes |-> disk.entries, log |-> <<>>] ELSE IF disk.kind = "absent" THEN [notes |-> <<>>, log |-> <<>>] ELSE [notes |-> <<>>, log |-> <<<<"showerror", "Failed to load notes">>>>]

\* Variant: the exception of the dump is swallowed and True returned.
save_notes_index_AlwaysTrue(entries, disk, w) == [disk |-> WriteFile(disk, IndexFile(entries), w), ok |-> TRUE, log |-> <<>>]

\* NotesApp.save_notes_index: dumps self.notes over the index file.
save_notes_index(entries, disk, w) == IF w = "ok" THEN [disk |-> IndexFile(entries), ok |-> TRUE, log |-> <<>>] ELSE [disk |-> WriteFile(disk, IndexFile(entries), w), ok |-> FALSE, log |-> <<<<"showerror", "Failed to save notes index">>, <<"status", "Save failed">>>>]

\* NotesApp.save_note_file: dumps note_data over notes/<id>.json.
save_note_file(fs, note_data, w) == IF w = "ok" THEN [files |-> [fs EXCEPT ![note_data.id] = note_data], ok |-> TRUE, log |-> <<>>] ELSE [files |-> [fs EXCEPT ![note_data.id] = WriteFile(fs[note_data.id], note_data, w)], ok |-> FALSE, log |-> <<<<"showerror", "Failed to save note file">>>>]

\* NotesApp.load_note_file: None (NoNote) when the file does not exist, and
\* None after an error dialog when reading or parsing it raises.
NoNote == [kind |-> "none"]
load_note_file(fs, note_id, readOk) == IF fs[note_id].kind = "absent" THEN [note |-> NoNote, log |-> <<>>] ELSE IF fs[note_id].kind = "note" /\ readOk THEN [note |-> fs[note_id], log |-> <<>>] ELSE [note |-> NoNote, log |-> <<<<"showerror", "Failed to load note">>>>]

\* Variant: the cutoff itself is excluded.
filter_notes_by_days_Exclusive(entries, days, t) == IF days = NoDays THEN SortedDesc(entries) ELSE SortedDesc(SelectSeq(entries, LAMBDA e : e.created > t - days * TicksPerDay))

\* NotesApp.filter_notes_by_days / NoteStorage.filter_notes_by_days: t is the
\* datetime.now() it reads; created is parsed with fromisoformat.
filter_notes_by_days(entries, days, t) == IF days = NoDays THEN SortedDesc(entries) ELSE SortedDesc(SelectSeq(entries, LAMBDA e : fromisoformat(isoformat(e.created)) >= t - days * TicksPerDay))

\* ------------------------------------------------------------------ state
VARIABLES files, diskIndex, notes, current_note_id, screen, cards, is_new, now, log, last, notes_dir, text_editor, call

\* The state of the application.
appVars == <<files, diskIndex, notes, current_note_id, screen, cards, is_new, now, log, last>>
\* The state the storage class and the editing surface are exercised on by
\* themselves.
unitVars == <<notes_dir, text_editor, call>>

vars == <<files, diskIndex, notes, current_note_id, screen, cards, is_new, now, log, last, notes_dir, text_editor, call>>

\* files        : notes/<id>.json for every id: Absent, Corrupt or the note
\* diskIndex    : notes/notes_index.json: Absent, Corrupt or IndexFile(entries)
\* notes        : self.notes, the in-memory index
\* screen       : which screen main_frame shows: "menu", "list" or "editor"
\* cards        : the ids captured by the Open/Delete buttons of the list
\*                (empty when the list is not shown: its widgets are destroyed)
\* is_new       : the is_new captured by the editor's Save button (FALSE when
\*                the editor is not shown)
\* now          : the wall clock, in ticks
\* last         : the save or delete handler the last step ran, with its
\*                inputs and how its two write steps ended; NoHandler when
\*                the last step was another callback
\* log          : the status messages and dialogs that handler produced, in
\*                order (after a start: those of loading the index)
\* notes_dir    : the notes directory of a NoteStorage, one file per id, each
\*                held as its text
\* text_editor  : the Text widget of the editor: its characters, the last
\*                being the newline the widget always ends with, and the
\*                tags on each character
\* call         : the last call made on the NoteStorage or on the editing
\*                surface, with its arguments, its result and the dialogs it
\*                showed

SuccessStatus == {"Note saved", "Note updated", "Note deleted"}

Entry(note_data) == [id |-> note_data.id, title |-> note_data.title, created |-> note_data.created, modified |-> note_data.modified]

NoCall == [op |-> "none"]

NoHandler == [op |-> "none", id |-> NoId, is_new |-> FALSE, title |-> <<>>, content |-> <<>>, fileStep |-> "none", indexStep |-> "none"]

\* NotesApp.show_main_menu: sets the status and redraws the menu.
show_main_menu == <<<<"status", "Ready">>>>

\* ------------------------------------------------------------------- save
\* Variant: the entry is appended and the index written whatever
\* save_note_file returned.
SaveNew_IndexRegardless(fs, entries, disk, note_data, wf, wi) ==
  LET f == save_note_file(fs, note_data, wf)
      appended == Append(entries, Entry(note_data))
      x == save_notes_index(appended, disk, wi)
  IN IF ~f.ok THEN [files |-> f.files, notes |-> appended, disk |-> x.disk, log |-> f.log \o x.log, menu |-> FALSE, fileStep |-> "failed", indexStep |-> IF x.ok THEN "ok" ELSE "failed"]
     ELSE IF ~x.ok THEN [files |-> f.files, notes |-> appended, disk |-> x.disk, log |-> x.log, menu |-> FALSE, fileStep |-> "ok", indexStep |-> "failed"]
     ELSE [files |-> f.files, notes |-> appended, disk |-> x.disk, log |-> <<<<"status", "Note saved">>, <<"showinfo", "Note saved successfully!">>>> \o show_main_menu, menu |-> TRUE, fileStep |-> "ok", indexStep |-> "ok"]

\* The is_new branch of save_current_note, from the note file write on.
SaveNew(fs, entries, disk, note_data, wf, wi) ==
  LET f == save_note_file(fs, note_data, wf)
      appended == Append(entries, Entry(note_data))
      x == save_notes_index(appended, disk, wi)
  IN IF ~f.ok THEN [files |-> f.files, notes |-> entries, disk |-> disk, log |-> f.log, menu |-> FALSE, fileStep |-> "failed", indexStep |-> "none"]
     ELSE IF ~x.ok THEN [files |-> f.files, notes |-> appended, disk |-> x.disk, log |-> x.log, menu |-> FALSE, fileStep |-> "ok", indexStep |-> "failed"]
     ELSE [files |-> f.files, notes |-> appended, disk |-> x.disk, log |-> <<<<"status", "Note saved">>, <<"showinfo", "Note saved successfully!">>>> \o show_main_menu, menu |-> TRUE, fileStep |-> "ok", indexStep |-> "ok"]

\* Variant: an entry is appended when no entry has the id.
ReplaceFirst_AppendIfMissing(entries, note_data) ==
  LET i == FirstIndexOf(entries, note_data.id)
  IN IF i = 0 THEN Append(entries, Entry(note_data)) ELSE [entries EXCEPT ![i] = Entry(note_data)]

\* for i, note in enumerate(self.notes): if note["id"] == id: replace; break
ReplaceFirst(entries, note_data) ==
  LET i == FirstIndexOf(entries, note_data.id)
  IN IF i = 0 THEN entries ELSE [entries EXCEPT ![i] = Entry(note_data)]

\* The created an update save writes: the existing note's, when it loaded.
PreservedCreated(existing, note_data) == IF existing.kind = "note" THEN [note_data EXCEPT !.created = existing.created] ELSE note_data

\* The update branch of save_current_note.
SaveUpdate(fs, entries, disk, note_data0, readOk, wf, wi) ==
  LET ld == load_note_file(fs, note_data0.id, readOk)
      note_data == PreservedCreated(ld.note, note_data0)
      f == save_note_file(fs, note_data, wf)
      replaced == ReplaceFirst(entries, note_data)
      x == save_notes_index(replaced, disk, wi)
  IN IF ~f.ok THEN [files |-> f.files, notes |-> entries, disk |-> disk, log |-> ld.log \o f.log, menu |-> FALSE, fileStep |-> "failed", indexStep |-> "none"]
     ELSE IF ~x.ok THEN [files |-> f.files, notes |-> replaced, disk |-> x.disk, log |-> ld.log \o x.log, menu |-> FALSE, fileStep |-> "ok", indexStep |-> "failed"]
     ELSE [files |-> f.files, notes |-> replaced, disk |-> x.disk, log |-> ld.log \o <<<<"status", "Note updated">>, <<"showinfo", "Note updated successfully!">>>> \o show_main_menu, menu |-> TRUE, fileStep |-> "ok", indexStep |-> "ok"]

\* Variant: the title is tested for emptiness and stored without strip().
SavedTitle_NoStrip(title_in) == IF title_in = <<>> THEN UntitledNote ELSE title_in

\* title = self.title_entry.get().strip(); if not title: "Untitled Note"
SavedTitle(title_in) == IF Strip(title_in) = <<>> THEN UntitledNote ELSE Strip(title_in)

\* Variant: "if not content:", the test without strip().
EmptyContent_NoStrip(content_in) == content_in = <<>>

\* if not content.strip(): warn and return
EmptyContent(content_in) == Strip(content_in) = <<>>

\* NotesApp.save_current_note. t1 and t2 are the two datetime.now() reads; the
\* text saved carries no decoration, so get_current_formatting() is empty.
save_current_note(isNew, cur, fs, entries, disk, title_in, content_in, t1, t2, readOk, wf, wi) ==
  LET note_data == [kind |-> "note", id |-> cur, title |-> SavedTitle(title_in), content |-> content_in, formatting |-> <<>>, created |-> t1, modified |-> t2]
      r == IF isNew THEN SaveNew(fs, entries, disk, note_data, wf, wi) ELSE SaveUpdate(fs, entries, disk, note_data, readOk, wf, wi)
  IN IF EmptyContent(content_in)
     THEN [files |-> fs, notes |-> entries, disk |-> disk, log |-> <<<<"status", "Saving note...">>, <<"showwarning", "Note content cannot be empty">>, <<"status", "Save cancelled">>>>, menu |-> FALSE, fileStep |-> "none", indexStep |-> "none", now |-> t1]
     ELSE [files |-> r.files, notes |-> r.notes, disk |-> r.disk, log |-> <<<<"status", "Saving note...">>>> \o r.log, menu |-> r.menu, fileStep |-> r.fileStep, indexStep |-> r.indexStep, now |-> t2]

\* ----------------------------------------------------------------- delete
\* Variant: unlink() without the exists() test raises on a missing file.
delete_note_file_NoExistsCheck(fs, note_id, unlinkOk) == IF fs[note_id].kind # "absent" /\ unlinkOk THEN [files |-> [fs EXCEPT ![note_id] = Absent], ok |-> TRUE] ELSE [files |-> fs, ok |-> FALSE]

\* NoteStorage.delete_note_file / the first step of NotesApp.delete_note:
\* if note_filepath.exists(): note_filepath.unlink()
delete_note_file(fs, note_id, unlinkOk) == IF fs[note_id].kind = "absent" THEN [files |-> fs, ok |-> TRUE] ELSE IF unlinkOk THEN [files |-> [fs EXCEPT ![note_id] = Absent], ok |-> TRUE] ELSE [files |-> fs, ok |-> FALSE]

\* Variant: the result of save_notes_index is not tested before the success
\* report.
delete_note_IgnoreIndexResult(note_id, confirm, fs, entries, disk, unlinkOk, wi) ==
  LET d == delete_note_file(fs, note_id, unlinkOk)
      removed == RemoveId(entries, note_id)
      x == save_notes_index(removed, disk, wi)
  IN IF ~confirm THEN [files |-> fs, notes |-> entries, disk |-> disk, log |-> <<>>, menu |-> FALSE, fileStep |-> "none", indexStep |-> "none"]
     ELSE IF ~d.ok THEN [files |-> d.files, notes |-> entries, disk |-> disk, log |-> <<<<"showerror", "Failed to delete note">>, <<"status", "Delete failed">>>>, menu |-> FALSE, fileStep |-> "failed", indexStep |-> "none"]
     ELSE [files |-> d.files, notes |-> removed, disk |-> x.disk, log |-> x.log \o <<<<"status", "Note deleted">>, <<"showinfo", "Note deleted successfully!">>>> \o show_main_menu, menu |-> TRUE, fileStep |-> "ok", indexStep |-> IF x.ok THEN "ok" ELSE "failed"]

\* NotesApp.delete_note
delete_note(note_id, confirm, fs, entries, disk, unlinkOk, wi) ==
  LET d == delete_note_file(fs, note_id, unlinkOk)
      removed == RemoveId(entries, note_id)
      x == save_notes_index(removed, disk, wi)
  IN IF ~confirm THEN [files |-> fs, notes |-> entries, disk |-> disk, log |-> <<>>, menu |-> FALSE, fileStep |-> "none", indexStep |-> "none"]
     ELSE IF ~d.ok THEN [files |-> d.files, notes |-> entries, disk |-> disk, log |-> <<<<"showerror", "Failed to delete note">>, <<"status", "Delete failed">>>>, menu |-> FALSE, fileStep |-> "failed", indexStep |-> "none"]
     ELSE IF ~x.ok THEN [files |-> d.files, notes |-> removed, disk |-> x.disk, log |-> x.log, menu |-> FALSE, fileStep |-> "ok", indexStep |-> "failed"]
     ELSE [files |-> d.files, notes |-> removed, disk |-> x.disk, log |-> <<<<"status", "Note deleted">>, <<"showinfo", "Note deleted successfully!">>>> \o show_main_menu, menu |-> TRUE, fileStep |-> "ok", indexStep |-> "ok"]

\* ----------------------------------------------------------------- create
\* Variant: an index entry is added for the new id at once.
create_new_note_AppendsEntry(entries, t) == [note_id |-> IdOf(t), notes |-> Append(entries, [id |-> IdOf(t), title |-> UntitledNote, created |-> t, modified |-> t])]

\* NotesApp.create_new_note: the id is the current time to the second; the
\* editor is opened on it with is_new=True and nothing is stored.
create_new_note(entries, t) == [note_id |-> IdOf(t), notes |-> entries]

\* ------------------------------------------------------------------- list
\* Variant: the index is sorted in place (self.notes.sort(...)) before it is
\* filtered.
show_notes_list_SortInPlace(entries, days, t) == [cards |-> SelectIds(filter_notes_by_days(entries, days, t)), notes |-> SortedDesc(entries)]

\* NotesApp.show_notes_list: the cards of filter_notes_by_days(days_filter),
\* which builds new lists from self.notes with a comprehension and sorted().
show_notes_list(entries, days, t) == [cards |-> SelectIds(filter_notes_by_days(entries, days, t)), notes |-> entries]

\* ---------------------------------------------------------------- actions
AppInit ==
  /\ files = [i \in IdSet |-> Absent]
  /\ diskIndex = Absent
  /\ notes = <<>>
  /\ current_note_id = NoId
  /\ screen = "menu"
  /\ cards = <<>>
  /\ is_new = FALSE
  /\ now = 0
  /\ log = <<>>
  /\ last = NoHandler

\* A fresh install: no file in the notes directory.
Init ==
  /\ AppInit
  /\ notes_dir = [i \in IdSet |-> Absent]
  /\ text_editor = Surface(<<>>)
  /\ call = NoCall

\* The wall clock advances between two callbacks.
Tick ==
  /\ now < MaxTime
  /\ now' = now + 1
  /\ last' = NoHandler
  /\ log' = <<>>
  /\ UNCHANGED <<files, diskIndex, notes, current_note_id, screen, cards, is_new>>
  /\ UNCHANGED unitVars

\* The process is started again: NotesApp.__init__ loads the index and
\* shows the main menu.
Restart ==
  LET r == load_notes(diskIndex)
  IN /\ notes' = r.notes
     /\ current_note_id' = NoId
     /\ screen' = "menu"
     /\ cards' = <<>>
     /\ is_new' = FALSE
     /\ log' = r.log
     /\ last' = [NoHandler EXCEPT !.op = "start"]
     /\ UNCHANGED <<files, diskIndex, now>>
     /\ UNCHANGED unitVars

\* The Back button of the list and of the editor.
ShowMainMenu ==
  /\ screen \in {"list", "editor"}
  /\ screen' = "menu"
  /\ cards' = <<>>
  /\ is_new' = FALSE
  /\ last' = NoHandler
  /\ log' = <<>>
  /\ UNCHANGED <<files, diskIndex, notes, current_note_id, now>>
  /\ UNCHANGED unitVars

\* NotesApp.create_new_note, then show_note_editor(note_id, is_new=True).
CreateNewNote ==
  /\ screen = "menu"
  /\ LET r == create_new_note(notes, now)
     IN /\ current_note_id' = r.note_id
        /\ notes' = r.notes
  /\ is_new' = TRUE
  /\ screen' = "editor"
  /\ last' = NoHandler
  /\ log' = <<>>
  /\ UNCHANGED <<files, diskIndex, cards, now>>
  /\ UNCHANGED unitVars

\* NotesApp.show_notes_list(days_filter): one card per filtered entry.
ShowNotesList(days) ==
  /\ screen = "menu"
  /\ LET r == show_notes_list(notes, days, now)
     IN /\ cards' = r.cards
        /\ notes' = r.notes
  /\ screen' = "list"
  /\ last' = NoHandler
  /\ log' = <<>>
  /\ UNCHANGED <<files, diskIndex, current_note_id, is_new, now>>
  /\ UNCHANGED unitVars

\* The Open button of card i: show_note_editor(n["id"], is_new=False).
OpenNote(i) ==
  /\ screen = "list"
  /\ i \in 1..Len(cards)
  /\ current_note_id' = cards[i]
  /\ is_new' = FALSE
  /\ screen' = "editor"
  /\ cards' = <<>>
  /\ last' = NoHandler
  /\ log' = <<>>
  /\ UNCHANGED <<files, diskIndex, notes, now>>
  /\ UNCHANGED unitVars

\* The Save button of the editor: save_current_note(is_new).
SaveCurrentNote(title_in, content_in, adv, readOk, wf, wi) ==
  /\ screen = "editor"
  /\ now + adv <= MaxTime
  /\ is_new => Len(notes) < MaxIndexLen
  /\ LET r == save_current_note(is_new, current_note_id, files, notes, diskIndex, title_in, content_in, now, now + adv, readOk, wf, wi)
     IN /\ files' = r.files
        /\ notes' = r.notes
        /\ diskIndex' = r.disk
        /\ log' = r.log
        /\ screen' = IF r.menu THEN "menu" ELSE screen
        /\ is_new' = IF r.menu THEN FALSE ELSE is_new
        /\ now' = r.now
        /\ last' = [op |-> "save", id |-> current_note_id, is_new |-> is_new, title |-> title_in, content |-> content_in, fileStep |-> r.fileStep, indexStep |-> r.indexStep]
  /\ UNCHANGED <<current_note_id, cards>>
  /\ UNCHANGED unitVars

\* The Delete button of card i: delete_note(n["id"]), after the askyesno.
DeleteNote(i, confirm, unlinkOk, wi) ==
  /\ screen = "list"
  /\ i \in 1..Len(cards)
  /\ LET r == delete_note(cards[i], confirm, files, notes, diskIndex, unlinkOk, wi)
     IN /\ files' = r.files
        /\ notes' = r.notes
        /\ diskIndex' = r.disk
        /\ log' = r.log
        /\ screen' = IF r.menu THEN "menu" ELSE screen
        /\ cards' = IF r.menu THEN <<>> ELSE cards
        /\ last' = [NoHandler EXCEPT !.op = "delete", !.id = cards[i], !.fileStep = r.fileStep, !.indexStep = r.indexStep]
  /\ UNCHANGED <<current_note_id, is_new, now>>
  /\ UNCHANGED unitVars

\* An outcome (of a clock read, a file read, a file write) is drawn from its
\* set only when the handler reaches that step; otherwise it is not used.
WhenReached(reached, outcomes, unused) == IF reached THEN outcomes ELSE {unused}

\* The user presses Save with some title and content in the editor.
PressSave == \E title_in \in TitleInputs, content_in \in ContentInputs : \E adv \in WhenReached(~EmptyContent(content_in), 0..1, 0), wf \in WhenReached(~EmptyContent(content_in), WriteResults, "ok"), readOk \in WhenReached(~EmptyContent(content_in) /\ ~is_new, BOOLEAN, TRUE) : \E wi \in WhenReached(~EmptyContent(content_in) /\ wf = "ok", WriteResults, "ok") : SaveCurrentNote(title_in, content_in, adv, readOk, wf, wi)

\* The user presses Delete on a card and answers the confirmation.
PressDelete == \E i \in 1..MaxIndexLen, confirm \in BOOLEAN : \E unlinkOk \in WhenReached(confirm, BOOLEAN, TRUE) : \E wi \in WhenReached(confirm /\ unlinkOk, WriteResults, "ok") : DeleteNote(i, confirm, unlinkOk, wi)

Next ==
  \/ Tick
  \/ Restart
  \/ ShowMainMenu
  \/ CreateNewNote
  \/ \E days \in DaysFilters : ShowNotesList(days)
  \/ \E i \in 1..MaxIndexLen : OpenNote(i)
  \/ PressSave
  \/ PressDelete

Spec == Init /\ [][Next]_vars

\* ------------------------------------------------- the storage by itself
\* NoteStorage (src/storage.py) holds the same file operations as NotesApp,
\* taking their data as arguments. StorageSpec calls them one at a time, on
\* a notes directory that starts with files found on disk: none, unreadable
\* ones, and notes another program wrote.

\* NoteStorage.save_note_file: json.dump(note_data) over notes/<id>.json.
NoteStorage_save_note_file(dir, note_data, w) == IF w = "ok" THEN [dir |-> [dir EXCEPT ![note_data.id] = TextFile(json_dump(note_data))], ok |-> TRUE, log |-> <<>>] ELSE [dir |-> [dir EXCEPT ![note_data.id] = WriteFile(dir[note_data.id], TextFile(json_dump(note_data)), w)], ok |-> FALSE, log |-> <<<<"showerror", "Failed to save note file">>>>]

\* NoteStorage.load_note_file: json.load of the file when it exists; None
\* when it does not, and None after an error dialog when open or json.load
\* raises.
NoteStorage_load_note_file(dir, note_id, readOk) == IF dir[note_id].kind = "absent" THEN [note |-> NoNote, log |-> <<>>] ELSE IF readOk /\ ParsesAsJson(dir[note_id]) THEN [note |-> json_load(dir[note_id].members), log |-> <<>>] ELSE [note |-> NoNote, log |-> <<<<"showerror", "Failed to load note">>>>]

\* The six fields of a note.
NoteFields == {"id", "title", "content", "formatting", "created", "modified"}

\* Ranges as get_formatting returns them: "line.column" texts and a tag.
FormattingInputs == {<<>>, <<[start |-> <<"1", ".", "0">>, end |-> <<"1", ".", "2">>, tag |-> "bold"], [start |-> <<"1", ".", "1">>, end |-> <<"2", ".", "0">>, tag |-> "italic"]>>}
\* Titles and contents with the characters JSON escapes.
StoredTitles == {<<"\"", "t">>}
StoredContents == {<<"a", "\n", "b">>, <<"\\", "\"">>}
NoteInputs == [id : IdSet, title : StoredTitles, content : StoredContents, formatting : FormattingInputs, created : {0}, modified : {0, 1}]

\* A note file another program wrote without its content.
IncompleteFile == TextFile(SelectSeq(json_dump(CHOOSE n \in NoteInputs : n.formatting = <<>>), LAMBDA m : m[1] # "content"))
FoundFiles == {Absent, Corrupt, IncompleteFile}

\* The clock reading of the filter calls, and created timestamps on both
\* sides of, and exactly at, the 30 day and the 7 day cutoff.
FilterNow == 30 * TicksPerDay + 1
FilterCreated == {FilterNow - 30 * TicksPerDay - 1, FilterNow - 30 * TicksPerDay, FilterNow - 7 * TicksPerDay - 1, FilterNow - 7 * TicksPerDay, FilterNow}
FilterEntries == [id : {0}, title : {<<"t">>}, created : FilterCreated, modified : {FilterNow}]
FilterInputs == UNION {[1..n -> FilterEntries] : n \in 0..MaxFilterLen}

StorageInit ==
  /\ AppInit
  /\ notes_dir \in [IdSet -> FoundFiles]
  /\ text_editor = Surface(<<>>)
  /\ call = NoCall

\* storage.save_note_file(note_data)
StorageSave(note_data, w) ==
  LET r == NoteStorage_save_note_file(notes_dir, note_data, w)
  IN /\ notes_dir' = r.dir
     /\ call' = [op |-> "save", note |-> note_data, before |-> notes_dir[note_data.id], ok |-> r.ok, log |-> r.log]
     /\ UNCHANGED text_editor
     /\ UNCHANGED appVars

\* storage.load_note_file(note_id)
StorageLoad(note_id, readOk) ==
  LET r == NoteStorage_load_note_file(notes_dir, note_id, readOk)
  IN /\ call' = [op |-> "load", id |-> note_id, file |-> notes_dir[note_id], readOk |-> readOk, note |-> r.note, log |-> r.log]
     /\ UNCHANGED <<notes_dir, text_editor>>
     /\ UNCHANGED appVars

StorageNext ==
  \/ \E note_data \in NoteInputs, w \in WriteResults : StorageSave(note_data, w)
  \/ \E note_id \in IdSet, readOk \in BOOLEAN : StorageLoad(note_id, readOk)

StorageSpec == StorageInit /\ [][StorageNext]_vars

\* -------------------------------------------------- the filter by itself
\* FilterSpec: an index and a days filter are given, and
\* storage.filter_notes_by_days(notes, days) is called on them at FilterNow.
FilterInit ==
  /\ AppInit
  /\ notes_dir = [i \in IdSet |-> Absent]
  /\ text_editor = Surface(<<>>)
  /\ call \in [op : {"filter_args"}, entries : FilterInputs, days : DaysFilters]

StorageFilter ==
  /\ call.op = "filter_args"
  /\ call' = [op |-> "filter", entries |-> call.entries, days |-> call.days, now |-> FilterNow, result |-> filter_notes_by_days(call.entries, call.days, FilterNow)]
  /\ UNCHANGED <<notes_dir, text_editor>>
  /\ UNCHANGED appVars

FilterNext == StorageFilter

FilterSpec == FilterInit /\ [][FilterNext]_vars

\* ----------------------------------------- the editing surface by itself
\* EditorSpec: a note is open in the editor with some content; the user
\* selects text and presses a format button, or saves the note and opens it
\* again.
EditorContents == [1..MaxContentLen -> {"a", "\n"}]
\* sel.first < sel.last, offsets into the text; the selection may reach over
\* the final newline.
Selections == {NoSelection} \cup {sel \in (0..MaxContentLen) \X (1..(MaxContentLen + 1)) : sel[1] < sel[2]}

EditorInit ==
  /\ AppInit
  /\ notes_dir = [i \in IdSet |-> Absent]
  /\ text_editor \in {Surface(content) : content \in EditorContents}
  /\ call = NoCall

\* A format button is pressed while sel is the selection.
ApplyFormat(format_type, sel) ==
  LET r == apply_format(text_editor, format_type, sel)
  IN /\ text_editor' = r.surface
     /\ call' = [op |-> "format", tag |-> format_type, sel |-> sel, log |-> r.log]
     /\ UNCHANGED notes_dir
     /\ UNCHANGED appVars

\* The note is saved and opened again: get_current_formatting() of the
\* surface goes into the note, and show_note_editor inserts the same content
\* into a fresh Text and applies the saved formatting to it.
ReopenNote ==
  LET formatting == get_current_formatting(text_editor)
      content == SubSeq(text_editor.chars, 1, Len(text_editor.chars) - 1)
  IN /\ text_editor' = apply_saved_formatting(Surface(content), formatting)
     /\ call' = [op |-> "reopen", formatting |-> formatting]
     /\ UNCHANGED notes_dir
     /\ UNCHANGED appVars

EditorNext ==
  \/ \E format_type \in Tags, sel \in Selections : ApplyFormat(format_type, sel)
  \/ ReopenNote

EditorSpec == EditorInit /\ [][EditorNext]_vars

\* ------------------------------------------------- titles given at save
\* The application within one second of the clock (one note id), the Save
\* button pressed with every kind of title: empty, whitespace only, padded
\* with whitespace, plain.
SaveTitles == {<<>>, <<" ", " ">>, <<" ", "t", " ">>, <<"u">>}

PressSaveTitled == \E title_in \in SaveTitles, wf \in WriteResults, readOk \in WhenReached(~is_new, BOOLEAN, TRUE) : \E wi \in WhenReached(wf = "ok", WriteResults, "ok") : SaveCurrentNote(title_in, <<"a">>, 0, readOk, wf, wi)

TitleNext ==
  \/ Restart
  \/ ShowMainMenu
  \/ CreateNewNote
  \/ ShowNotesList(NoDays)
  \/ \E i \in 1..MaxIndexLen : OpenNote(i)
  \/ PressSaveTitled

TitleSpec == Init /\ [][TitleNext]_vars

\* ------------------------------------------------------------- properties
\* What loading the index file returns for the file as it is on disk.
DiskEntries == load_notes(diskIndex).notes

Count(entries, note_id) == Len(SelectSeq(entries, LAMBDA e : e.id = note_id))

HasFile(note_id) == files[note_id].kind # "absent"

\* The handler of the last step set a success status / showed an error dialog.
Reported(kind, texts) == \E k \in 1..Len(log) : log[k][1] = kind /\ log[k][2] \in texts
ReportedSuccess == Reported("status", SuccessStatus)
ReportedError == \E k \in 1..Len(log) : log[k][1] = "showerror"

\* The last step was a save / a delete and both its steps succeeded.
SaveSucceeded == last.op = "save" /\ last.fileStep = "ok" /\ last.indexStep = "ok"
DeleteSucceeded == last.op = "delete" /\ last.fileStep = "ok" /\ last.indexStep = "ok"

\* The same of the step being taken.
UpdateWrote == last'.op = "save" /\ ~last'.is_new /\ last'.fileStep = "ok" /\ files[last'.id].kind = "note"
DeleteStepSucceeded == last'.op = "delete" /\ last'.fileStep = "ok" /\ last'.indexStep = "ok"

\* An index entry of an id that has a readable note file equals that note's
\* id, title, created and modified.
EntryMatchesFile(e) == files[e.id].kind = "note" => e = Entry(files[e.id])

\* Two confirmed deletes of the same id, all of whose writes succeed; the
\* unlink of the second would succeed or fail if it were called.
SecondDeleteSame(note_id, unlinkOk) ==
  LET first == delete_note(note_id, TRUE, files, notes, diskIndex, TRUE, "ok")
      second == delete_note(note_id, TRUE, first.files, first.notes, first.disk, unlinkOk, "ok")
      removed == delete_note_file(first.files, note_id, unlinkOk)
  IN /\ second.files = first.files
     /\ second.notes = first.notes
     /\ second.disk = first.disk
     /\ \A k \in 1..Len(second.log) : second.log[k][1] # "showerror"
     /\ removed.ok
     /\ removed.files = first.files

\* C1: write operations never produce an orphan: after any sequence of
\* create, save, delete and open, whose writes may fail, every id of the
\* on-disk index has a note file and every note file has an entry in the
\* on-disk index.
C1_NoOrphan == \A note_id \in IdSet : HasFile(note_id) <=> Count(DiskEntries, note_id) > 0

\* C2: after a save that completed successfully (note file written, then
\* index written) the on-disk index holds exactly one entry with the saved
\* note's id.
C2_ExactlyOneEntry == SaveSucceeded => Count(DiskEntries, last.id) = 1

\* C3: in every reachable state every index entry, in memory and on disk, of
\* an id that has a note file carries the title, created and modified of that
\* note file.
C3_IndexMatchesFile == (\A k \in 1..Len(notes) : EntryMatchesFile(notes[k])) /\ (\A k \in 1..Len(DiskEntries) : EntryMatchesFile(DiskEntries[k]))

\* C4: created is immutable: an update save (is_new = false) that writes the
\* note file of an existing note leaves the created of the note file, and of
\* the index entry it replaces, equal to the created the note had, whatever
\* re-loading the existing note file returned.
C4_CreatedImmutable == [][UpdateWrote => (files'[last'.id].created = files[last'.id].created /\ (Count(notes', last'.id) > 0 => notes'[FirstIndexOf(notes', last'.id)].created = files[last'.id].created))]_vars

\* C5: when the note file step of a save or of a delete fails, the index write
\* does not run and the in-memory index and the on-disk index are unchanged
\* by that handler.
C5_FileStepFailureStops == [][last'.fileStep = "failed" => (notes' = notes /\ diskIndex' = diskIndex /\ last'.indexStep = "none")]_vars

\* C5 witness: a new-note save whose note file write failed part-way.
C5_Witness == last.op = "save" /\ last.is_new /\ last.fileStep = "failed" /\ files[last.id].kind = "corrupt"

\* C6: a save or delete reports success only if its note file step and its
\* index write both succeeded; when either fails the handler shows an error
\* and reports no success.
C6_SuccessOnlyIfWritten == (ReportedSuccess => (last.fileStep = "ok" /\ last.indexStep = "ok")) /\ ((last.fileStep = "failed" \/ last.indexStep = "failed") => (ReportedError /\ ~ReportedSuccess))

\* C6 witness: a delete that removed the file and whose index write failed.
C6_Witness == last.op = "delete" /\ last.fileStep = "ok" /\ last.indexStep = "failed" /\ ReportedError

\* C7: a save with empty or whitespace-only content, new or update, writes
\* nothing: the note files, the in-memory index and the on-disk index are
\* unchanged, the editor stays, and no success is reported.
C7_EmptyContentRejected == [][(last'.op = "save" /\ Strip(last'.content) = <<>>) => (files' = files /\ notes' = notes /\ diskIndex' = diskIndex /\ screen' = screen /\ ~ReportedSuccess')]_vars

\* C7 witness: an update save of an existing note with whitespace-only content.
C7_Witness == last.op = "save" /\ last.content = <<" ">> /\ ~last.is_new /\ files[last.id].kind = "note" /\ screen = "editor"

\* C8: the index file is overwritten atomically: after every step it holds
\* the complete previous index or the complete new one, never a partial file.
C8_AtomicIndexWrite == [][diskIndex' = diskIndex \/ diskIndex' = IndexFile(notes')]_vars

\* C9: a confirmed delete that completes successfully removes the note file
\* and every index entry of the id, in memory and on disk, and leaves the
\* note files and the index entries, in memory and on disk, of all other ids
\* unchanged and in their order.
C9_DeleteFrame == [][DeleteStepSucceeded => (/\ files' = [files EXCEPT ![last'.id] = Absent] /\ Count(notes', last'.id) = 0 /\ Count(DiskEntries', last'.id) = 0 /\ notes' = RemoveId(notes, last'.id) /\ DiskEntries' = RemoveId(DiskEntries, last'.id))]_vars

\* C10: delete is idempotent: in every storage state and for every id, a
\* second delete of the id after a first one shows no error, although the
\* file is gone, and leaves the note files and both indexes as the first
\* delete left them.
C10_DeleteIdempotent == \A note_id \in IdSet, unlinkOk \in BOOLEAN : SecondDeleteSame(note_id, unlinkOk)

\* C10 witness: a delete has removed a note and its entries while other
\* entries remain, the state a second delete of that id starts from.
C10_Witness == DeleteSucceeded /\ ~HasFile(last.id) /\ Count(notes, last.id) = 0 /\ Len(notes) > 0

\* A successful save of a note by the storage.
StorageSaved == call.op = "save" /\ call.ok

\* C11: save/load round trip: loading a note by its id immediately after a
\* successful save of note n returns a record equal to n in all six fields,
\* whatever the file of that id held before (an earlier save is fully
\* replaced).
C11_SaveLoadRoundTrip == StorageSaved => (LET r == NoteStorage_load_note_file(notes_dir, call.note.id, TRUE) IN r.note = call.note /\ DOMAIN r.note = NoteFields /\ r.log = <<>>)

\* C11 witness: a note with escaped characters and two ranges was saved over
\* the file of an earlier, different save.
C11_Witness == StorageSaved /\ call.before.kind = "text" /\ call.before # notes_dir[call.note.id] /\ IsJson(call.before.members) /\ Len(call.note.formatting) = 2 /\ call.note.content = <<"\\", "\"">>

\* C12: after the first save of a new note the persisted note and its index
\* entry have created equal to modified, also when the clock advances
\* between the two reads of the current time during that save.
C12_CreatedEqualsModified == (last.op = "save" /\ last.is_new /\ last.fileStep = "ok") => (files[last.id].created = files[last.id].modified /\ \A k \in 1..Len(notes) : notes[k].id = last.id => notes[k].created = notes[k].modified)

\* How often an entry occurs in an index.
Occurrences(entries, e) == Len(SelectSeq(entries, LAMBDA x : x = e))

\* The reference: which entries a filter call keeps.
Kept(e, days, t) == days = NoDays \/ e.created >= t - days * TicksPerDay

\* C13: filter_notes_by_days(entries, days) equals the reference: with no
\* days every entry is in the result; otherwise exactly the entries with
\* created >= now - days, the boundary included, as often as in the input; the
\* result is ordered by created descending and holds nothing else.
C13_FilterMatchesReference == call.op = "filter" => (/\ \A e \in FilterEntries : Occurrences(call.result, e) = (IF Kept(e, call.days, call.now) THEN Occurrences(call.entries, e) ELSE 0) /\ \A k \in 1..Len(call.result) : call.result[k] \in FilterEntries /\ \A i \in 1..Len(call.result), j \in 1..Len(call.result) : i < j => call.result[i].created >= call.result[j].created)

\* C13 witness: a 7 day filter of three entries given in ascending order, one
\* created exactly at the cutoff and kept, one a tick before it and dropped.
C13_Witness == call.op = "filter" /\ call.days = 7 /\ Len(call.entries) = 3 /\ call.entries[1].created = call.now - 7 * TicksPerDay - 1 /\ call.entries[2].created = call.now - 7 * TicksPerDay /\ call.entries[3].created = call.now /\ Len(call.result) = 2 /\ call.result[2].created = call.now - 7 * TicksPerDay

\* C14: listing and filtering are side-effect free: a step that shows the
\* notes list leaves the in-memory index, content and order, the on-disk
\* index and every note file unchanged.
C14_ListingSideEffectFree == [][(screen = "menu" /\ screen' = "list") => (notes' = notes /\ diskIndex' = diskIndex /\ files' = files)]_vars

\* C14 witness: the list shows two notes in another order than the index
\* holds them in.
C14_Witness == screen = "list" /\ Len(cards) = 2 /\ Len(notes) = 2 /\ cards # SelectIds(notes)

\* The last call on the storage showed an error dialog.
CallSignalledError == \E k \in 1..Len(call.log) : call.log[k][1] = "showerror"

\* The file the last load read is a note: JSON with the six fields.
LoadedFileValid == ParsesAsJson(call.file) /\ NoteFields \subseteq DOMAIN json_load(call.file.members)

\* C15: loadNote has three outcomes: absent, without error, when the note
\* file does not exist; the note when the file is valid; a read error when the
\* file exists but is not valid JSON or lacks one of the fields id, title,
\* content, formatting, created, modified.
C15_LoadNoteOutcomes == call.op = "load" => ((call.file.kind = "absent" => (call.note = NoNote /\ ~CallSignalledError)) /\ ((call.file.kind # "absent" /\ LoadedFileValid /\ call.readOk) => (call.note = json_load(call.file.members) /\ ~CallSignalledError)) /\ ((call.file.kind # "absent" /\ ~LoadedFileValid) => (call.note = NoNote /\ CallSignalledError)))

\* C16: loadIndex returns an empty sequence without an error when the index
\* file is absent, and shows a read error and returns an empty sequence when
\* the file exists but cannot be parsed; the load changes neither the index
\* file nor a note file.
C16_LoadIndexOutcomes == [][last'.op = "start" => ((diskIndex.kind = "absent" => (notes' = <<>> /\ log' = <<>>)) /\ (diskIndex.kind = "corrupt" => (notes' = <<>> /\ ReportedError')) /\ diskIndex' = diskIndex /\ files' = files)]_vars

\* C16 witness: the application started on an unparsable index file beside an
\* existing note file.
C16_Witness == last.op = "start" /\ diskIndex.kind = "corrupt" /\ notes = <<>> /\ ReportedError /\ \E note_id \in IdSet : HasFile(note_id)

\* C17: createNote persists nothing: create_new_note makes the id of the
\* current timestamp the current note and leaves the in-memory index, the
\* on-disk index and all note files unchanged.
C17_CreatePersistsNothing == [][(screen = "menu" /\ screen' = "editor") => (current_note_id' = IdOf(now) /\ is_new' /\ notes' = notes /\ diskIndex' = diskIndex /\ files' = files)]_vars

\* C17 witness: a new note is being edited whose id is in no index and has no
\* file, while another note is stored.
C17_Witness == screen = "editor" /\ is_new /\ last.op = "none" /\ ~HasFile(current_note_id) /\ Count(notes, current_note_id) = 0 /\ Count(DiskEntries, current_note_id) = 0 /\ Len(DiskEntries) > 0

\* An id is in storage: it has a note file or an entry in the on-disk index.
InStorage(note_id) == HasFile(note_id) \/ Count(DiskEntries, note_id) > 0

\* C17, whole: create_new_note leaves the in-memory index, the on-disk index
\* and all note files unchanged, and an id that is not in storage comes into
\* storage only by a step that is a successful save of that id.
C17_FirstPersistedBySuccessfulSave == [][((screen = "menu" /\ screen' = "editor") => (current_note_id' = IdOf(now) /\ is_new' /\ notes' = notes /\ diskIndex' = diskIndex /\ files' = files)) /\ (\A note_id \in IdSet : (~InStorage(note_id) /\ InStorage(note_id)') => (last'.op = "save" /\ last'.id = note_id /\ last'.fileStep = "ok" /\ last'.indexStep = "ok"))]_vars

\* The step is a format button pressed with / without a selection.
FormatWithSelection == call'.op = "format" /\ call'.sel # NoSelection
FormatWithoutSelection == call'.op = "format" /\ call'.sel = NoSelection

\* The characters of the selection of the step: offsets first up to last.
Selected(p) == call'.sel[1] < p /\ p <= call'.sel[2]

\* C18: toggleFormat with an active selection [start, end) and tag t: when t
\* is on the character at start, t is afterwards on no character of the
\* selection, otherwise on every one; only the start position decides, the
\* other two tags are unchanged everywhere and t is unchanged outside the
\* selection.
C18_ToggleFormat == [][FormatWithSelection => (text_editor'.chars = text_editor.chars /\ \A p \in DOMAIN text_editor.tags : ((Selected(p) => ((call'.tag \in text_editor'.tags[p]) <=> (call'.tag \notin text_editor.tags[call'.sel[1] + 1]))) /\ (~Selected(p) => ((call'.tag \in text_editor'.tags[p]) <=> (call'.tag \in text_editor.tags[p]))) /\ (text_editor'.tags[p] \ {call'.tag} = text_editor.tags[p] \ {call'.tag})))]_vars

\* C18 witness: bold was removed from a selection of two characters of which
\* only the first carried it, beside another tag that stayed.
C18_Witness == call.op = "format" /\ call.tag = "bold" /\ call.sel = <<0, 2>> /\ text_editor.tags[1] = {"italic"} /\ text_editor.tags[2] = {}  /\ text_editor.tags[3] = {"bold"}

\* C19: toggleFormat without a selection shows the notice and leaves every
\* tag of the editing surface, the in-memory index and all stored files
\* unchanged.
C19_NoSelectionNoChange == [][FormatWithoutSelection => (text_editor' = text_editor /\ call'.log = <<<<"showinfo", "Please select text to format">>>> /\ notes' = notes /\ diskIndex' = diskIndex /\ files' = files /\ notes_dir' = notes_dir)]_vars

\* C19 witness: a format button was pressed without a selection on a surface
\* that carries tags.
C19_Witness == call.op = "format" /\ call.sel = NoSelection /\ call.log # <<>> /\ text_editor.tags[1] = {"bold", "underline"}

\* The tags of a formatting list come in the order bold, italic, underline.
TagRank(tag) == CHOOSE k \in 1..Len(TagOrder) : TagOrder[k] = tag
InTagOrder(formatting) == \A i \in 1..Len(formatting), j \in 1..Len(formatting) : i < j => TagRank(formatting[i].tag) <= TagRank(formatting[j].tag)

\* C20: formatting round trip: applying the ranges captured from a surface
\* to a fresh surface with the same content gives the same tags on every
\* position, and capturing again returns the same list of ranges, in tag
\* order bold, italic, underline.
C20_FormattingRoundTrip == [][call'.op = "reopen" => (text_editor' = text_editor /\ get_current_formatting(text_editor') = call'.formatting /\ InTagOrder(call'.formatting))]_vars

\* C20 witness: a surface of two lines with overlapping bold and italic spans
\* and two separate underline spans was saved and opened again.
C20_Witness == call.op = "reopen" /\ text_editor.chars = <<"a", "\n", "\n">> /\ text_editor.tags[1] = {"bold", "underline"} /\ text_editor.tags[2] = {"bold", "italic"} /\ text_editor.tags[3] = {"italic", "underline"} /\ Len(call.formatting) = 4

\* Every title stored in a note file, in the in-memory index and in the
\* on-disk index is a non-empty string.
TitlesNonEmpty == (\A i \in IdSet : files[i].kind = "note" => files[i].title # <<>>) /\ (\A k \in 1..Len(notes) : notes[k].title # <<>>) /\ (\A k \in 1..Len(DiskEntries) : DiskEntries[k].title # <<>>)

\* The position of the index entry the save being taken wrote: the appended
\* one for a new note, the first of the id for an update (0: none).
WrittenEntry == IF last'.is_new THEN Len(notes') ELSE FirstIndexOf(notes, last'.id)

\* C21: every note file and every index entry written by a save has a
\* non-empty title: when the title supplied is empty or whitespace-only the
\* stored title is 'Untitled Note', and the note file and the index entry
\* that save writes, in memory and (when the index write succeeds) on disk,
\* carry the same title.
C21_TitleDefaulted == [][TitlesNonEmpty' /\ ((last'.op = "save" /\ last'.fileStep = "ok") => (/\ (Strip(last'.title) = <<>> => files'[last'.id].title = UntitledNote) /\ (WrittenEntry > 0 => notes'[WrittenEntry].title = files'[last'.id].title) /\ ((WrittenEntry > 0 /\ last'.indexStep = "ok") => DiskEntries'[WrittenEntry].title = files'[last'.id].title)))]_vars

\* C21 witness: an update save with a whitespace-only title wrote the note
\* file and replaced the entry of the note, and the index write succeeded:
\* the file and an on-disk entry carry 'Untitled Note'.
C21_Witness == SaveSucceeded /\ ~last.is_new /\ last.title = <<" ", " ">> /\ Count(DiskEntries, last.id) > 0 /\ files[last.id].title = UntitledNote /\ (\E k \in 1..Len(DiskEntries) : DiskEntries[k].title = UntitledNote)

\* The step being taken is a save or a delete whose note file step succeeded
\* and whose index write failed.
IndexWriteFailed == last'.op \in {"save", "delete"} /\ last'.fileStep = "ok" /\ last'.indexStep = "failed"

\* The in-memory index after that step holds the change: the entry appended
\* by a new-note save, the first entry of the id replaced by an update save,
\* every entry of the id removed by a delete.
MemoryKeepsChange ==
  LET i == FirstIndexOf(notes, last'.id)
  IN IF last'.op = "delete" THEN notes' = RemoveId(notes, last'.id)
     ELSE IF last'.is_new THEN notes' = Append(notes, Entry(files'[last'.id]))
     ELSE IF i = 0 THEN notes' = notes
     ELSE notes' = [notes EXCEPT ![i] = Entry(files'[last'.id])]

\* The note file after that step is the one written, or is removed.
FileKeepsChange == IF last'.op = "delete" THEN files'[last'.id] = Absent ELSE (files'[last'.id].kind = "note" /\ files'[last'.id].content = last'.content)

\* The first two parts of C22: after a failed index write the in-memory
\* index is not rolled back and the note-file change is kept.
C22_NoRollback == [][IndexWriteFailed => (MemoryKeepsChange /\ FileKeepsChange)]_vars

\* A new-note save whose index write failed: the entry stays in memory, the
\* note file stays, the editor stays open.
C22_Witness == last.op = "save" /\ last.is_new /\ last.fileStep = "ok" /\ last.indexStep = "failed" /\ Count(notes, last.id) > 0 /\ HasFile(last.id) /\ screen = "editor"

\* C22: when the index write fails after the note-file step and the
\* in-memory index update succeeded, the in-memory index is not rolled back
\* (it keeps the appended, replaced or removed entry), the note-file change
\* is kept, and the on-disk index is the one that lags behind: it still
\* holds the index as it was before the operation.
C22_IndexFailureKeepsMemory == [][IndexWriteFailed => (MemoryKeepsChange /\ FileKeepsChange /\ diskIndex' = diskIndex)]_vars

\* C23: whenever a save or delete ends with a success report, the on-disk
\* index equals the in-memory index at that moment, entry by entry and in
\* the same order, however many earlier index writes failed.
C23_SuccessMeansIndexSynced == (last.op \in {"save", "delete"} /\ ReportedSuccess) => (diskIndex.kind = "index" /\ diskIndex.entries = notes)

\* C23 witness: a success report in a state that an earlier failed index
\* write marked: a note file whose entry never reached the index, so that
\* after a restart the in-memory index has no entry of it.
C23_Witness == last.op \in {"save", "delete"} /\ ReportedSuccess /\ Len(notes) > 0 /\ (\E i \in IdSet : files[i].kind = "note" /\ Count(notes, i) = 0)

\* The step being taken repeats the save or delete of the step before it,
\* whose index write failed, and this time every write succeeds.
RetrySucceeded == last.op \in {"save", "delete"} /\ last.fileStep = "ok" /\ last.indexStep = "failed" /\ last'.op = last.op /\ last'.id = last.id /\ last'.is_new = last.is_new /\ last'.title = last.title /\ last'.content = last.content /\ last'.fileStep = "ok" /\ last'.indexStep = "ok"

\* The failed attempt did not leave its screen: the editor with its is_new
\* and its note id, the list with its cards.
ScreenKept == screen' = screen /\ is_new' = is_new /\ cards' = cards /\ current_note_id' = current_note_id

\* The id is no orphan between the note files and the entries of an index.
NoOrphanIn(fs, entries, note_id) == (fs[note_id].kind # "absent") <=> (Count(entries, note_id) > 0)

\* The first part of C24: a failed index write does not leave the screen.
C24_ScreenKept == [][IndexWriteFailed => ScreenKept]_vars

\* A delete whose index write failed: the list is still shown with the card
\* of the deleted note.
C24_Witness == last.op = "delete" /\ last.fileStep = "ok" /\ last.indexStep = "failed" /\ screen = "list" /\ (\E k \in 1..Len(cards) : cards[k] = last.id) /\ ~HasFile(last.id)

\* C24: recovery by retry: when the index write of a save or delete fails
\* the screen is not left (the editor keeps is_new, the list keeps its
\* cards), and when the user repeats the same operation and all writes then
\* succeed the resulting storage has no orphan; stated for the note the
\* operation is about, one of the notes the claim speaks of: it has a note
\* file exactly when it has an entry in the on-disk index.
C24_RetryRecovers == [][(IndexWriteFailed => ScreenKept) /\ (RetrySucceeded => NoOrphanIn(files', DiskEntries', last'.id))]_vars

\* The step being taken is an update save (is_new = false).
UpdateSave == last'.op = "save" /\ ~last'.is_new

\* The in-memory index after the step has the ids of before, in their
\* places, and differs from it at most in the first entry of the id.
OnlyFirstEntryReplaced == Len(notes') = Len(notes) /\ (\A k \in 1..Len(notes) : notes'[k].id = notes[k].id /\ (notes'[k] # notes[k] => (notes[k].id = last'.id /\ (\A j \in 1..(k - 1) : notes[j].id # last'.id))))

\* In an editor opened on a note that has no index entry, a save with
\* content whose writes succeed writes the note file, leaves the index as
\* it is and reports the update.
MissingEntryStillSaves == (screen = "editor" /\ ~is_new /\ Count(notes, current_note_id) = 0) => (\A title_in \in TitleInputs, readOk \in BOOLEAN : LET r == save_current_note(FALSE, current_note_id, files, notes, diskIndex, title_in, <<"a">>, now, now, readOk, "ok", "ok") IN r.files[current_note_id].kind = "note" /\ r.files[current_note_id].content = <<"a">> /\ r.notes = notes /\ r.disk = IndexFile(notes) /\ (\E k \in 1..Len(r.log) : r.log[k] = <<"status", "Note updated">>))

\* C25: an update save (is_new = false) never changes the set of ids or the
\* number of entries of the index (self.notes, which it then writes out): it
\* replaces at most the first entry whose id is the current note id and
\* leaves every other entry unchanged, also when no entry with that id
\* exists, in which case the note file is still written and the save still
\* reports success.
C25_UpdateKeepsIndexShape == [][(UpdateSave => OnlyFirstEntryReplaced) /\ MissingEntryStillSaves]_vars

\* C25 witness: an update save of a note that has no index entry, while
\* another note has one, wrote the note file and reported success.
C25_Witness == SaveSucceeded /\ ~last.is_new /\ ReportedSuccess /\ Count(notes, last.id) = 0 /\ Len(notes) > 0 /\ files[last.id].kind = "note"

====
